---- MODULE Spec2Model ----
(***************************************************************************)
(* Intent classification, embedding caching and vector-search caching of   *)
(* the coffee-shop assistant (app/services).                                *)
(*                                                                         *)
(* Similarities and thresholds are integers in hundredths (0.7 is 70).     *)
(* Embeddings are integer vectors of Euclidean norm 10, so the cosine      *)
(* similarity in hundredths is exact.                                      *)
(***************************************************************************)
EXTENDS Integers, Sequences, FiniteSets, TLC

\* ------------------------------------------------------------------ bounds

\* usage_count is capped so the state space is finite
MaxUsage == 1
\* number of rows the intent_exemplar table may hold
MaxExemplars == 2
\* the clock (in ticks) stops here
MaxTime == 3
\* ticks of the clock in a minute
TicksPerMinute == 2
\* hit_count of a vector_search_cache row is capped
MaxHits == 2

\* ------------------------------------------------------------------ vectors

\* The vectors of the model. The state holds a vector by its name; VecOf gives
\* its components.
VecNames == {"v1", "v2", "v3", "v4", "v5", "v6"}

\* v5 and v6 agree on their first ten dimensions and differ after them
VecOf(v) ==
    CASE v = "v1" -> <<10, 0, 0, 0, 0, 0, 0, 0, 0, 0, 0, 0>>
      [] v = "v2" -> <<8, 6, 0, 0, 0, 0, 0, 0, 0, 0, 0, 0>>
      [] v = "v3" -> <<6, 8, 0, 0, 0, 0, 0, 0, 0, 0, 0, 0>>
      [] v = "v4" -> <<0, 10, 0, 0, 0, 0, 0, 0, 0, 0, 0, 0>>
      [] v = "v5" -> <<8, 0, 0, 0, 0, 0, 0, 0, 0, 0, 6, 0>>
      [] v = "v6" -> <<8, 0, 0, 0, 0, 0, 0, 0, 0, 0, 0, 6>>

Min(a, b) == IF a <= b THEN a ELSE b

RECURSIVE DotFrom(_, _, _)
DotFrom(a, b, i) ==
    IF i > Len(a) THEN 0 ELSE a[i] * b[i] + DotFrom(a, b, i + 1)

Dot(a, b) == DotFrom(a, b, 1)

ISqrt(n) == CHOOSE r \in 0..n : r * r <= n /\ (r + 1) * (r + 1) > n

Norm(a) == ISqrt(Dot(a, a))

\* pgvector: a <=> b is the cosine distance, 1 - (a <=> b) the cosine
\* similarity, here in hundredths
CosineSimilarity(a, b) == (100 * Dot(a, b)) \div (Norm(a) * Norm(b))

\* the similarities of the model's vectors, computed once
SimTable == [a \in VecNames |-> [b \in VecNames |-> CosineSimilarity(VecOf(a), VecOf(b))]]

\* 1 - (embedding <=> :query_embedding)
Similarity(a, b) == SimTable[a][b]

\* ------------------------------------------------------------------ values

Texts == {"t1", "t2"}
Phrases == {"p1", "p2"}
Intents == {"PRODUCT_SEARCH", "STORE_INFO"}
Thresholds == {80, 96}
MinThresholds == {0, 60}
Limits == {1, 2, 5}

EMBEDDING_MODEL == "text-embedding-004"

\* what may fail during one call: nothing, the embedding provider, the
\* store's answer to the cache read, or the store's answer to the cache write
Faults == {"none", "provider", "read", "write"}

\* the embedding provider is a function of the text
ProviderVec(text) ==
    CASE text = "t1" -> "v1"
      [] text = "t2" -> "v2"
      [] text = "p1" -> "v2"
      [] text = "p2" -> "v3"
      [] OTHER -> "v4"

\* SHA-256 of the text: distinct texts of the model have distinct digests
_hash_text(text) == <<"sha256", text>>

NoRow == [absent |-> TRUE]
None == [none |-> TRUE]
\* no vector (an absent dict entry, or nothing returned)
NoVec == "none"

Keys == Intents \X Phrases

\* every text handed to the embedding service: queries and exemplar phrases
AllTexts == Texts \cup Phrases

VARIABLES
    intent_exemplar,    \* table: (intent, phrase) -> row or NoRow
    memory_cache,       \* EmbeddingService._memory_cache: text -> vector or NoVec
    embedding_cache,    \* table: text_hash -> row or NoRow
    initialized,        \* VertexAIService._initialized
    product,            \* table: id -> row
    vector_search_cache, \* table: embedding_hash -> row or NoRow
    response_cache,     \* table: cache_key -> row or NoRow
    now,                \* CURRENT_TIMESTAMP, in ticks
    requests,           \* two concurrent get_text_embedding calls, step by step
    last                \* the last call and what it returned

intentVars == <<intent_exemplar, memory_cache, embedding_cache, initialized>>
vectorVars == <<product, vector_search_cache, response_cache, now, requests>>
vars == <<intentVars, vectorVars, last>>

\* ------------------------------------------------------------------ embedding cache (CacheService)

\* fields of the EmbeddingCache struct
EmbeddingCacheFields ==
    {"id", "text_hash", "embedding", "model", "hit_count", "last_accessed", "created_at"}

\* SELECT ... FROM embedding_cache WHERE text_hash = :h AND model = :m
get_cached_embedding(db, text, model_name) ==
    LET row == db[_hash_text(text)]
    IN IF row # NoRow /\ row.model = model_name THEN row ELSE None

\* INSERT ... ON CONFLICT (text_hash) DO UPDATE SET embedding, model, created_at
set_cached_embedding(db, text, embedding, model_name) ==
    LET h == _hash_text(text)
    IN [db EXCEPT ![h] =
            IF db[h] = NoRow
            THEN [embedding |-> embedding, model |-> model_name, hit_count |-> 0]
            ELSE [db[h] EXCEPT !.embedding = embedding, !.model = model_name]]

\* ------------------------------------------------------------------ embedding provider (VertexAIService)

\* get_text_embedding: "RuntimeError" when not initialized, "ValueError" when
\* the API call fails, else the vector
vertex_get_text_embedding(init, text, fault) ==
    IF ~init THEN [raised |-> "RuntimeError", vec |-> NoVec]
    ELSE IF fault = "provider" THEN [raised |-> "ValueError", vec |-> NoVec]
    ELSE [raised |-> "none", vec |-> ProviderVec(text)]

\* ------------------------------------------------------------------ EmbeddingService

cache_new_embedding_unguarded(mem, db, text, embedding, fault) ==
    [raised |-> IF fault = "write" THEN "StoreError" ELSE "none",
     mem |-> [mem EXCEPT ![text] = embedding],
     db |-> IF fault # "write"
            THEN set_cached_embedding(db, text, embedding, EMBEDDING_MODEL)
            ELSE db]

\* try: the memory map, then the table; except Exception: logged, not raised
cache_new_embedding(mem, db, text, embedding, fault) ==
    [raised |-> "none",
     mem |-> [mem EXCEPT ![text] = embedding],
     db |-> IF fault # "write"
            THEN set_cached_embedding(db, text, embedding, EMBEDDING_MODEL)
            ELSE db]

get_text_embedding_counting(mem, db, init, text, use_cache, fault) ==
    LET cached == get_cached_embedding(db, text, EMBEDDING_MODEL)
        gen == vertex_get_text_embedding(init, text, fault)
        fail(e) == [raised |-> e, vec |-> NoVec, source |-> "-", mem |-> mem, db |-> db]
    IN IF use_cache /\ mem[text] # NoVec
       THEN [raised |-> "none", vec |-> mem[text], source |-> "memory", mem |-> mem,
             db |-> [db EXCEPT ![_hash_text(text)] =
                        IF @ = NoRow THEN @ ELSE [@ EXCEPT !.hit_count = @ + 1]]]
       ELSE IF use_cache /\ fault = "read"
       THEN fail("StoreError")
       ELSE IF use_cache /\ cached # None
       THEN IF "embedding_data" \in EmbeddingCacheFields
            THEN [raised |-> "none", vec |-> cached.embedding, source |-> "db",
                  mem |-> [mem EXCEPT ![text] = cached.embedding], db |-> db]
            ELSE fail("AttributeError")
       ELSE IF gen.raised # "none"
       THEN fail(gen.raised)
       ELSE LET c == cache_new_embedding(mem, db, text, gen.vec, fault)
            IN IF use_cache /\ c.raised # "none"
               THEN [raised |-> c.raised, vec |-> NoVec, source |-> "-",
                     mem |-> c.mem, db |-> c.db]
               ELSE [raised |-> "none", vec |-> gen.vec, source |-> "provider",
                     mem |-> IF use_cache THEN c.mem ELSE mem,
                     db |-> IF use_cache THEN c.db ELSE db]

\* The outcome of get_text_embedding(text, use_cache): what is raised, the
\* vector returned, where it came from, and the two cache tiers afterwards.
\* fault: what fails during the call, if anything (see Faults).
get_text_embedding(mem, db, init, text, use_cache, fault) ==
    LET cached == get_cached_embedding(db, text, EMBEDDING_MODEL)
        gen == vertex_get_text_embedding(init, text, fault)
        fail(e) == [raised |-> e, vec |-> NoVec, source |-> "-", mem |-> mem, db |-> db]
    IN IF use_cache /\ mem[text] # NoVec
       THEN [raised |-> "none", vec |-> mem[text], source |-> "memory",
             mem |-> mem, db |-> db]
       ELSE IF use_cache /\ fault = "read"
       THEN fail("StoreError")
       ELSE IF use_cache /\ cached # None
       THEN IF "embedding_data" \in EmbeddingCacheFields
            THEN [raised |-> "none", vec |-> cached.embedding, source |-> "db",
                  mem |-> [mem EXCEPT ![text] = cached.embedding], db |-> db]
            ELSE fail("AttributeError")
       ELSE IF gen.raised # "none"
       THEN fail(gen.raised)
       ELSE LET c == cache_new_embedding(mem, db, text, gen.vec, fault)
            IN IF use_cache /\ c.raised # "none"
               THEN [raised |-> c.raised, vec |-> NoVec, source |-> "-",
                     mem |-> c.mem, db |-> c.db]
               ELSE [raised |-> "none", vec |-> gen.vec, source |-> "provider",
                     mem |-> IF use_cache THEN c.mem ELSE mem,
                     db |-> IF use_cache THEN c.db ELSE db]

\* The lookup loop of get_batch_embeddings: the first text, in order, that is
\* not in the memory map decides whether the loop raises.
RECURSIVE BatchLookupRaise(_, _, _, _, _)
BatchLookupRaise(mem, db, texts, i, fault) ==
    IF i > Len(texts) THEN "none"
    ELSE IF mem[texts[i]] # NoVec THEN BatchLookupRaise(mem, db, texts, i + 1, fault)
    ELSE IF fault = "read" THEN "StoreError"
    ELSE IF get_cached_embedding(db, texts[i], EMBEDDING_MODEL) # None
    THEN IF "embedding_data" \in EmbeddingCacheFields
         THEN BatchLookupRaise(mem, db, texts, i + 1, fault)
         ELSE "AttributeError"
    ELSE BatchLookupRaise(mem, db, texts, i + 1, fault)

\* EmbeddingService.get_batch_embeddings(texts, use_cache): what is raised,
\* the vectors returned, the texts sent to the provider (<<>>: no call), and
\* the two cache tiers afterwards.
get_batch_embeddings(mem, db, init, texts, use_cache, fault) ==
    LET lookup == IF use_cache THEN BatchLookupRaise(mem, db, texts, 1, fault) ELSE "none"
        InCache(t) == mem[t] # NoVec
                      \/ get_cached_embedding(db, t, EMBEDDING_MODEL) # None
        ToGenerate(t) == ~use_cache \/ ~InCache(t)
        texts_to_generate == SelectSeq(texts, ToGenerate)
        gen == IF ~init THEN "RuntimeError"
               ELSE IF fault = "provider" THEN "ValueError" ELSE "none"
        sentset == {texts_to_generate[i] : i \in 1..Len(texts_to_generate)}
        fail(e, sent) == [raised |-> e, vecs |-> <<>>, sent |-> sent,
                          mem |-> mem, db |-> db]
        FromCache(t) == IF mem[t] # NoVec THEN mem[t]
                        ELSE get_cached_embedding(db, t, EMBEDDING_MODEL).embedding
    IN IF texts = <<>>
       THEN [raised |-> "none", vecs |-> <<>>, sent |-> <<>>, mem |-> mem, db |-> db]
       ELSE IF lookup # "none" THEN fail(lookup, <<>>)
       ELSE IF texts_to_generate = <<>>
       THEN [raised |-> "none", vecs |-> [i \in 1..Len(texts) |-> FromCache(texts[i])],
             sent |-> <<>>,
             mem |-> [t \in DOMAIN mem |->
                        IF t \in {texts[i] : i \in 1..Len(texts)} THEN FromCache(t)
                        ELSE mem[t]],
             db |-> db]
       ELSE IF gen # "none" THEN fail(gen, texts_to_generate)
       ELSE [raised |-> "none",
             vecs |-> [i \in 1..Len(texts) |->
                         IF ToGenerate(texts[i]) THEN ProviderVec(texts[i])
                         ELSE FromCache(texts[i])],
             sent |-> texts_to_generate,
             mem |-> [t \in DOMAIN mem |->
                        IF use_cache /\ t \in sentset THEN ProviderVec(t)
                        ELSE IF use_cache /\ t \in {texts[i] : i \in 1..Len(texts)}
                        THEN FromCache(t)
                        ELSE mem[t]],
             db |-> [h \in DOMAIN db |->
                        IF use_cache /\ fault # "write" /\ (\E t \in sentset : _hash_text(t) = h)
                        THEN (LET t == CHOOSE t \in sentset : _hash_text(t) = h
                              IN set_cached_embedding(db, t, ProviderVec(t),
                                                      EMBEDDING_MODEL)[h])
                        ELSE db[h]]]

\* ------------------------------------------------------------------ ExemplarService

upsert_exemplar_do_nothing(ex, intent, phrase, embedding, confidence_threshold) ==
    LET k == <<intent, phrase>>
    IN [ex EXCEPT ![k] =
            IF ex[k] = NoRow
            THEN [embedding |-> embedding,
                  confidence_threshold |-> confidence_threshold,
                  usage_count |-> 0]
            ELSE ex[k]]

\* INSERT ... ON CONFLICT (intent, phrase) DO UPDATE SET embedding,
\* confidence_threshold, updated_at
upsert_exemplar(ex, intent, phrase, embedding, confidence_threshold) ==
    LET k == <<intent, phrase>>
    IN [ex EXCEPT ![k] =
            IF ex[k] = NoRow
            THEN [embedding |-> embedding,
                  confidence_threshold |-> confidence_threshold,
                  usage_count |-> 0]
            ELSE [ex[k] EXCEPT !.embedding = embedding,
                               !.confidence_threshold = confidence_threshold]]

\* DELETE FROM intent_exemplar WHERE id = :id (the row's key stands for its id)
delete_exemplar(ex, k) == [ex EXCEPT ![k] = NoRow]

increment_usage_by_phrase_only(ex, intent, phrase) ==
    [k \in DOMAIN ex |->
        IF ex[k] # NoRow /\ k[2] = phrase
        THEN [ex[k] EXCEPT !.usage_count = @ + 1]
        ELSE ex[k]]

\* UPDATE intent_exemplar SET usage_count = usage_count + 1
\* WHERE intent = :intent AND phrase = :phrase
increment_usage_by_phrase(ex, intent, phrase) ==
    [k \in DOMAIN ex |->
        IF ex[k] # NoRow /\ k[1] = intent /\ k[2] = phrase
        THEN [ex[k] EXCEPT !.usage_count = @ + 1]
        ELSE ex[k]]

\* one row of the search: the columns of IntentSearchResult
SearchRow(ex, k, query_embedding) ==
    [intent |-> k[1], phrase |-> k[2],
     similarity |-> Similarity(ex[k].embedding, query_embedding),
     confidence_threshold |-> ex[k].confidence_threshold,
     usage_count |-> ex[k].usage_count]

PassesFloor_inclusive(similarity, min_threshold) == similarity >= min_threshold

\* WHERE similarity > :min_threshold
PassesFloor(similarity, min_threshold) == similarity > min_threshold

\* ORDER BY similarity DESC: a before b is a legal order of two rows
OrderedDesc(a, b) == a.similarity >= b.similarity

\* LIMIT :limit
Truncate(rows, limit) == SubSeq(rows, 1, Min(limit, Len(rows)))

\* search_similar_intents without target_intent: every list the query can
\* return (SQL leaves the order of rows of equal similarity open)
search_similar_intents(ex, query_embedding, min_threshold, limit) ==
    LET hits == {k \in DOMAIN ex :
                    /\ ex[k] # NoRow
                    /\ PassesFloor(Similarity(ex[k].embedding, query_embedding),
                                   min_threshold)}
        n == Cardinality(hits)
        orders == {s \in [1..n -> hits] :
                     /\ \A i, j \in 1..n : i # j => s[i] # s[j]
                     /\ \A i, j \in 1..n :
                          i < j => OrderedDesc(SearchRow(ex, s[i], query_embedding),
                                               SearchRow(ex, s[j], query_embedding))}
    IN {Truncate([i \in 1..n |-> SearchRow(ex, s[i], query_embedding)], limit) :
            s \in orders}

\* UPDATE intent_exemplar SET usage_count = usage_count + 1 WHERE id = :id
increment_usage(ex, k) ==
    [ex EXCEPT ![k] = IF @ = NoRow THEN @ ELSE [@ EXCEPT !.usage_count = @ + 1]]

\* What goes wrong during one load_exemplars_bulk call, if anything:
\* <<kind, j, i>> with kind "provider", "read" or "write" hitting the
\* embedding call of the j-th intent, and kind "upsert" hitting the upsert of
\* the i-th phrase of the j-th intent.
BatchFault(fault, j) ==
    IF fault[1] \in {"provider", "read", "write"} /\ fault[2] = j THEN fault[1] ELSE "none"

UpsertFails(fault, j, i) == fault[1] = "upsert" /\ fault[2] = j /\ fault[3] = i

\* the inner loop: for phrase, embedding in zip(phrases, embeddings): try the
\* upsert and count it; except Exception: logged
RECURSIVE UpsertFrom(_, _, _, _, _, _, _, _, _)
UpsertFrom(ex, intent, phrases, embeddings, default_threshold, fault, j, i, count) ==
    IF i > Min(Len(phrases), Len(embeddings))
    THEN [ex |-> ex, count |-> count]
    ELSE IF UpsertFails(fault, j, i)
    THEN UpsertFrom(ex, intent, phrases, embeddings, default_threshold, fault, j,
                    i + 1, count)
    ELSE UpsertFrom(upsert_exemplar(ex, intent, phrases[i], embeddings[i],
                                    default_threshold),
                    intent, phrases, embeddings, default_threshold, fault, j,
                    i + 1, count + 1)

\* the outer loop: for intent, phrases in exemplars.items(): embed the
\* phrases in one batch call, then upsert them
RECURSIVE BulkFrom(_, _, _, _, _, _, _, _, _)
BulkFrom(ex, mem, db, init, exemplars, default_threshold, fault, j, count) ==
    IF j > Len(exemplars)
    THEN [raised |-> "none", count |-> count, ex |-> ex, mem |-> mem, db |-> db]
    ELSE LET intent == exemplars[j][1]
             phrases == exemplars[j][2]
             b == get_batch_embeddings(mem, db, init, phrases, TRUE, BatchFault(fault, j))
         IN IF b.raised # "none"
            THEN [raised |-> b.raised, count |-> count, ex |-> ex,
                  mem |-> b.mem, db |-> b.db]
            ELSE LET u == UpsertFrom(ex, intent, phrases, b.vecs, default_threshold,
                                     fault, j, 1, count)
                 IN BulkFrom(u.ex, b.mem, b.db, init, exemplars, default_threshold,
                             fault, j + 1, u.count)

\* ExemplarService.load_exemplars_bulk(exemplars, embedding_service,
\* default_threshold): what is raised, the count returned, and the tables and
\* the memory map afterwards. exemplars is the dict as the list of its items.
load_exemplars_bulk(ex, mem, db, init, exemplars, default_threshold, fault) ==
    BulkFrom(ex, mem, db, init, exemplars, default_threshold, fault, 1, 0)

\* ------------------------------------------------------------------ IntentService

NoResult == [noresult |-> TRUE]
NoMatch == [nomatch |-> TRUE]

IntentResult(intent, confidence, exemplar_phrase, embedding_cache_hit, fallback_used) ==
    [intent |-> intent, confidence |-> confidence,
     exemplar_phrase |-> exemplar_phrase,
     embedding_cache_hit |-> embedding_cache_hit, fallback_used |-> fallback_used]

MeetsThreshold_strict(best_match) == best_match.similarity > best_match.confidence_threshold

MeetsThreshold_global(best_match) == best_match.similarity >= 60

\* best_match.similarity >= best_match.confidence_threshold
MeetsThreshold(best_match) == best_match.similarity >= best_match.confidence_threshold

FallbackConfidence_half(similar_intents) ==
    IF similar_intents = <<>> THEN 50 ELSE similar_intents[1].similarity

\* confidence of a fallback result: 0.0 when the search found nothing, else
\* the best match's similarity
FallbackConfidence(similar_intents) ==
    IF similar_intents = <<>> THEN 0 ELSE similar_intents[1].similarity

classify_decision_first_passing(ex, similar_intents, embedding_cache_hit) ==
    LET passing == {i \in 1..Len(similar_intents) : MeetsThreshold(similar_intents[i])}
    IN IF similar_intents = <<>>
       THEN [result |-> IntentResult("GENERAL_CONVERSATION",
                                     FallbackConfidence(similar_intents),
                                     "", embedding_cache_hit, TRUE),
             best_match |-> NoMatch, ex |-> ex]
       ELSE IF passing # {}
       THEN LET best_match ==
                    similar_intents[CHOOSE i \in passing : \A j \in passing : i <= j]
            IN [result |-> IntentResult(best_match.intent, best_match.similarity,
                                        best_match.phrase, embedding_cache_hit, FALSE),
                best_match |-> best_match,
                ex |-> increment_usage_by_phrase(ex, best_match.intent, best_match.phrase)]
       ELSE [result |-> IntentResult("GENERAL_CONVERSATION",
                                     FallbackConfidence(similar_intents),
                                     similar_intents[1].phrase, embedding_cache_hit, TRUE),
             best_match |-> similar_intents[1], ex |-> ex]

\* classify_intent after the search: the result, the best match it looked at
\* and the exemplar table afterwards
classify_decision(ex, similar_intents, embedding_cache_hit) ==
    IF similar_intents = <<>>
    THEN [result |-> IntentResult("GENERAL_CONVERSATION", FallbackConfidence(similar_intents),
                                  "", embedding_cache_hit, TRUE),
          best_match |-> NoMatch, ex |-> ex]
    ELSE LET best_match == similar_intents[1]
         IN IF MeetsThreshold(best_match)
            THEN [result |-> IntentResult(best_match.intent, best_match.similarity,
                                          best_match.phrase, embedding_cache_hit, FALSE),
                  best_match |-> best_match,
                  ex |-> increment_usage_by_phrase(ex, best_match.intent, best_match.phrase)]
            ELSE [result |-> IntentResult("GENERAL_CONVERSATION",
                                          FallbackConfidence(similar_intents),
                                          best_match.phrase, embedding_cache_hit, TRUE),
                  best_match |-> best_match, ex |-> ex]

\* embedding_cache_hit as classify_intent sets it: False unless the caller
\* passed the embedding in
CacheHitFlag(user_embedding, source) == user_embedding # NoVec

\* IntentService.classify_intent: every outcome the call can have
classify_intent(ex, mem, db, init, query, user_embedding, min_threshold, max_results, fault) ==
    LET e == IF user_embedding = NoVec
             THEN get_text_embedding(mem, db, init, query, TRUE, fault)
             ELSE [raised |-> "none", vec |-> user_embedding, source |-> "given",
                   mem |-> mem, db |-> db]
    IN IF e.raised # "none"
       THEN {[raised |-> e.raised, result |-> NoResult, best_match |-> NoMatch,
              source |-> e.source, ex |-> ex, mem |-> e.mem, db |-> e.db]}
       ELSE {LET d == classify_decision(ex, similar_intents,
                                        CacheHitFlag(user_embedding, e.source))
             IN [raised |-> "none", result |-> d.result, best_match |-> d.best_match,
                 source |-> e.source, ex |-> d.ex, mem |-> e.mem, db |-> e.db] :
             similar_intents \in search_similar_intents(ex, e.vec, min_threshold,
                                                        max_results)}

\* the exceptions AgentToolsService.classify_intent catches
ToolCaught == {"ValueError", "TypeError", "AttributeError"}

\* AgentToolsService.classify_intent(query): the dict it returns, or what it raises
tool_classify_intent(o) ==
    IF o.raised \in ToolCaught
    THEN [o EXCEPT !.raised = "none",
                   !.result = [intent |-> "GENERAL_CONVERSATION", confidence |-> 50,
                               exemplar_phrase |-> "", embedding_cache_hit |-> FALSE,
                               fallback_used |-> TRUE, error |-> o.raised]]
    ELSE o

\* ------------------------------------------------------------------ ProductService

ProductIds == {1, 2}
ProductQueryVecs == {"v5", "v6"}
SearchThresholds == {60, 80}
SearchLimits == {2}

\* embedding[:10]
EMBEDDING_SAMPLE == 10

\* CURRENT_TIMESTAMP + INTERVAL '1 minute', in ticks
VECTOR_CACHE_MINUTES == 1
VECTOR_CACHE_TTL == VECTOR_CACHE_MINUTES * TicksPerMinute

_generate_vector_cache_key_no_limit(embedding, threshold, limit) ==
    LET sample(v) == SubSeq(VecOf(v), 1, Min(EMBEDDING_SAMPLE, Len(VecOf(v))))
    IN <<CHOOSE v \in VecNames : sample(v) = sample(embedding), threshold, 0>>

\* sha256(json({embedding[:10], threshold, limit}))[:16]: the digest stands
\* for the data hashed, with the sampled prefix named by the first vector of
\* the model that has it
_generate_vector_cache_key(embedding, threshold, limit) ==
    LET sample(v) == SubSeq(VecOf(v), 1, Min(EMBEDDING_SAMPLE, Len(VecOf(v))))
    IN <<CHOOSE v \in VecNames : sample(v) = sample(embedding), threshold, limit>>

\* the limits the cached search is called with where the limit matters
CacheLimits == {1, 2}

VectorKeys ==
    {_generate_vector_cache_key(q, t, l) :
        q \in ProductQueryVecs, t \in SearchThresholds,
        l \in SearchLimits \cup CacheLimits}

\* the columns of ProductSearchResult the claims read
ProductRow(prod, id, query_embedding) ==
    [id |-> id, in_stock |-> prod[id].in_stock,
     similarity_score |-> IF prod[id].embedding = NoVec THEN -1
                          ELSE Similarity(prod[id].embedding, query_embedding)]

AtLeastThreshold_strict(similarity, similarity_threshold) ==
    similarity > similarity_threshold

\* 1 - (embedding <=> :query_embedding) >= :similarity_threshold
AtLeastThreshold(similarity, similarity_threshold) == similarity >= similarity_threshold

\* vector_similarity_search: every list the query can return
vector_similarity_search(prod, query_embedding, similarity_threshold, limit) ==
    LET hits == {id \in DOMAIN prod :
                    /\ prod[id].embedding # NoVec
                    /\ prod[id].in_stock
                    /\ AtLeastThreshold(Similarity(prod[id].embedding, query_embedding),
                                        similarity_threshold)}
        n == Cardinality(hits)
        orders == {s \in [1..n -> hits] :
                     /\ \A i, j \in 1..n : i # j => s[i] # s[j]
                     /\ \A i, j \in 1..n :
                          i < j => Similarity(prod[s[i]].embedding, query_embedding)
                                     >= Similarity(prod[s[j]].embedding, query_embedding)}
    IN {Truncate([i \in 1..n |-> ProductRow(prod, s[i], query_embedding)], limit) :
            s \in orders}

\* SELECT ... WHERE embedding_hash = :cache_key AND expires_at > CURRENT_TIMESTAMP
_get_cached_vector_search(cache, cache_key, t) ==
    IF cache[cache_key] # NoRow /\ cache[cache_key].expires_at > t
    THEN cache[cache_key] ELSE None

\* SELECT ... WHERE id = ANY(:product_ids) ORDER BY array_position(:product_ids, id)
_fetch_products_by_ids(prod, product_ids, query_embedding) ==
    [i \in 1..Len(product_ids) |-> ProductRow(prod, product_ids[i], query_embedding)]

_cache_vector_search_results_no_ttl(cache, cache_key, results, threshold, limit, t) ==
    LET product_ids == [i \in 1..Len(results) |-> results[i].id]
    IN [cache EXCEPT ![cache_key] =
            IF cache[cache_key] = NoRow
            THEN [similarity_threshold |-> threshold, result_limit |-> limit,
                  product_ids |-> product_ids, expires_at |-> t,
                  last_accessed |-> t, hit_count |-> 1]
            ELSE [cache[cache_key] EXCEPT !.product_ids = product_ids,
                                          !.expires_at = t,
                                          !.last_accessed = t,
                                          !.hit_count = @ + 1]]

\* INSERT ... ON CONFLICT (embedding_hash, similarity_threshold, result_limit)
\* DO UPDATE SET product_ids, results_count, expires_at, last_accessed,
\* hit_count = hit_count + 1
_cache_vector_search_results(cache, cache_key, results, threshold, limit, t) ==
    LET product_ids == [i \in 1..Len(results) |-> results[i].id]
    IN [cache EXCEPT ![cache_key] =
            IF cache[cache_key] = NoRow
            THEN [similarity_threshold |-> threshold, result_limit |-> limit,
                  product_ids |-> product_ids, expires_at |-> t + VECTOR_CACHE_TTL,
                  last_accessed |-> t, hit_count |-> 1]
            ELSE [cache[cache_key] EXCEPT !.product_ids = product_ids,
                                          !.expires_at = t + VECTOR_CACHE_TTL,
                                          !.last_accessed = t,
                                          !.hit_count = @ + 1]]

_update_cache_hit_sliding(cache, cache_key, t) ==
    [cache EXCEPT ![cache_key] = [@ EXCEPT !.hit_count = @ + 1, !.last_accessed = t,
                                           !.expires_at = t + VECTOR_CACHE_TTL]]

\* UPDATE vector_search_cache SET hit_count = hit_count + 1, last_accessed = now
_update_cache_hit(cache, cache_key, t) ==
    [cache EXCEPT ![cache_key] = [@ EXCEPT !.hit_count = @ + 1, !.last_accessed = t]]

\* vector_similarity_search_with_cache: every outcome of the call
vector_similarity_search_with_cache(prod, cache, query_embedding, similarity_threshold, limit, t) ==
    LET cache_key == _generate_vector_cache_key(query_embedding, similarity_threshold,
                                                limit)
        cached == _get_cached_vector_search(cache, cache_key, t)
    IN IF cached # None
       THEN {[results |-> _fetch_products_by_ids(prod, cached.product_ids,
                                                 query_embedding),
              cache_hit |-> TRUE,
              cache |-> _update_cache_hit(cache, cache_key, t)]}
       ELSE {[results |-> results, cache_hit |-> FALSE,
              cache |-> IF results # <<>>
                        THEN _cache_vector_search_results(cache, cache_key, results,
                                                          similarity_threshold, limit, t)
                        ELSE cache] :
             results \in vector_similarity_search(prod, query_embedding,
                                                  similarity_threshold, limit)}

\* ------------------------------------------------------------------ response cache (CacheService)

CacheKeys == {"k1", "k2"}
ResponseData == {"d1", "d2"}
TTLMinutes == {1}

\* a NULL expires_at is held as -1
IsNull(expires_at) == expires_at = -1

get_cached_response_any(rc, cache_key, t) ==
    IF rc[cache_key] # NoRow THEN rc[cache_key] ELSE None

\* SELECT ... WHERE cache_key = :k AND (expires_at IS NULL OR expires_at > now)
get_cached_response(rc, cache_key, t) ==
    IF rc[cache_key] # NoRow
        /\ (IsNull(rc[cache_key].expires_at) \/ rc[cache_key].expires_at > t)
    THEN rc[cache_key] ELSE None

\* INSERT ... ON CONFLICT (cache_key) DO UPDATE SET response_data, expires_at
set_cached_response(rc, cache_key, response_data, ttl_minutes, t) ==
    [rc EXCEPT ![cache_key] =
        [response_data |-> response_data, expires_at |-> t + ttl_minutes * TicksPerMinute]]

\* DELETE FROM response_cache WHERE expires_at IS NOT NULL AND expires_at < now
cleanup_expired_responses(rc, t) ==
    [k \in DOMAIN rc |->
        IF rc[k] # NoRow /\ ~IsNull(rc[k].expires_at) /\ rc[k].expires_at < t
        THEN NoRow ELSE rc[k]]

\* ------------------------------------------------------------------ calls

\* defaults of classify_intent
DefaultMinThreshold == 60
DefaultMaxResults == 5

\* longest list handed to get_batch_embeddings
MaxBatch == 2

UserVecs == {"v2", "v4"}
QueryVecs == {"v1", "v2", "v4"}
\* the texts classify_intent is called with
ClassifyTexts == {"t1"}
BatchInputs == UNION {[1..n -> Texts] : n \in 0..MaxBatch}

\* no concurrent calls under way
NoRequests == [started |-> FALSE]

LastBase ==
    [op |-> "init", text |-> "-", arg |-> <<>>, raised |-> "none", inner |-> "none",
     result |-> NoResult, best_match |-> NoMatch, source |-> "-",
     rows |-> <<>>, vecs |-> <<>>, sent |-> <<>>, fault |-> "-"]

RowCount(ex) == Cardinality({k \in DOMAIN ex : ex[k] # NoRow})

UsageInBound(ex) == \A k \in DOMAIN ex : ex[k] # NoRow => ex[k].usage_count <= MaxUsage

Init ==
    /\ intent_exemplar = [k \in Keys |-> NoRow]
    /\ memory_cache = [t \in AllTexts |-> NoVec]
    /\ embedding_cache = [h \in {_hash_text(t) : t \in AllTexts} |-> NoRow]
    /\ initialized \in BOOLEAN
    /\ product = [id \in ProductIds |->
                    [embedding |-> IF id = 1 THEN "v2" ELSE NoVec, in_stock |-> TRUE]]
    /\ vector_search_cache = [k \in VectorKeys |-> NoRow]
    /\ response_cache = [k \in CacheKeys |-> NoRow]
    /\ now = 0
    /\ requests = NoRequests
    /\ last = LastBase

\* EmbeddingService.__init__ : a new service instance starts with an empty
\* memory map; the tables outlive it
NewEmbeddingService ==
    /\ memory_cache' = [t \in AllTexts |-> NoVec]
    /\ last' = [LastBase EXCEPT !.op = "new_service"]
    /\ UNCHANGED <<intent_exemplar, embedding_cache, initialized, vectorVars>>

GetTextEmbedding ==
    \E text \in Texts, use_cache \in BOOLEAN, fault \in Faults :
        LET o == get_text_embedding(memory_cache, embedding_cache, initialized,
                                    text, use_cache, fault)
        IN /\ memory_cache' = o.mem
           /\ embedding_cache' = o.db
           /\ last' = [LastBase EXCEPT !.op = "embed", !.text = text,
                                       !.arg = <<use_cache>>,
                                       !.raised = o.raised, !.source = o.source,
                                       !.vecs = <<o.vec>>, !.fault = fault]
           /\ UNCHANGED <<intent_exemplar, initialized, vectorVars>>

GetBatchEmbeddings ==
    \E texts \in BatchInputs, use_cache \in BOOLEAN, fault \in Faults :
        LET o == get_batch_embeddings(memory_cache, embedding_cache, initialized,
                                      texts, use_cache, fault)
        IN /\ memory_cache' = o.mem
           /\ embedding_cache' = o.db
           /\ last' = [LastBase EXCEPT !.op = "batch", !.arg = <<use_cache, texts>>,
                                       !.raised = o.raised, !.vecs = o.vecs,
                                       !.sent = o.sent, !.fault = fault]
           /\ UNCHANGED <<intent_exemplar, initialized, vectorVars>>

UpsertExemplar ==
    \E intent \in Intents, phrase \in Phrases, threshold \in Thresholds :
        /\ intent_exemplar[<<intent, phrase>>] # NoRow
           \/ RowCount(intent_exemplar) < MaxExemplars
        /\ intent_exemplar' = upsert_exemplar(intent_exemplar, intent, phrase,
                                              ProviderVec(phrase), threshold)
        /\ last' = [LastBase EXCEPT !.op = "upsert"]
        /\ UNCHANGED <<memory_cache, embedding_cache, initialized, vectorVars>>

DeleteExemplar ==
    \E k \in Keys :
        /\ intent_exemplar[k] # NoRow
        /\ intent_exemplar' = delete_exemplar(intent_exemplar, k)
        /\ last' = [LastBase EXCEPT !.op = "delete"]
        /\ UNCHANGED <<memory_cache, embedding_cache, initialized, vectorVars>>

SearchSimilarIntents ==
    \E q \in QueryVecs, min_threshold \in MinThresholds, limit \in Limits :
        \E rows \in search_similar_intents(intent_exemplar, q, min_threshold, limit) :
            /\ last' = [LastBase EXCEPT !.op = "search",
                                        !.arg = <<q, min_threshold, limit>>,
                                        !.rows = rows]
            /\ UNCHANGED <<intentVars, vectorVars>>

\* the embedding is either computed from the query (and a fault may hit the
\* embedding service) or passed in by the caller (and no embedding call is made)
ClassifyInputs ==
    {<<q, NoVec, f>> : q \in ClassifyTexts, f \in Faults}
        \cup {<<q, u, "none">> : q \in ClassifyTexts, u \in UserVecs}

ClassifyIntent ==
    \E inp \in ClassifyInputs, min_threshold \in MinThresholds,
       max_results \in {1, DefaultMaxResults} :
        \E o \in classify_intent(intent_exemplar, memory_cache, embedding_cache,
                                 initialized, inp[1], inp[2], min_threshold,
                                 max_results, inp[3]) :
            /\ UsageInBound(o.ex)
            /\ intent_exemplar' = o.ex
            /\ memory_cache' = o.mem
            /\ embedding_cache' = o.db
            /\ last' = [LastBase EXCEPT !.op = "classify", !.text = inp[1],
                                        !.arg = <<min_threshold, inp[2]>>,
                                        !.raised = o.raised, !.inner = o.raised,
                                        !.result = o.result,
                                        !.best_match = o.best_match,
                                        !.source = o.source]
            /\ UNCHANGED <<initialized, vectorVars>>

\* AgentToolsService.classify_intent(query)
ToolClassifyIntent ==
    \E query \in ClassifyTexts, fault \in Faults :
        \E c \in classify_intent(intent_exemplar, memory_cache, embedding_cache,
                                 initialized, query, NoVec, DefaultMinThreshold,
                                 DefaultMaxResults, fault) :
            LET o == tool_classify_intent(c)
            IN /\ UsageInBound(o.ex)
               /\ intent_exemplar' = o.ex
               /\ memory_cache' = o.mem
               /\ embedding_cache' = o.db
               /\ last' = [LastBase EXCEPT !.op = "tool_classify", !.text = query,
                                           !.raised = o.raised, !.inner = c.raised,
                                           !.result = o.result,
                                           !.best_match = o.best_match,
                                           !.source = o.source]
               /\ UNCHANGED <<initialized, vectorVars>>

Next ==
    \/ NewEmbeddingService
    \/ UpsertExemplar
    \/ DeleteExemplar
    \/ SearchSimilarIntents
    \/ ClassifyIntent
    \/ ToolClassifyIntent

Spec == Init /\ [][Next]_vars

\* the models CacheService is called with: the configured one and another
Models == {EMBEDDING_MODEL, "text-embedding-005"}

\* the vector a model gives a text
ModelVec(text, model_name) ==
    IF model_name = EMBEDDING_MODEL THEN ProviderVec(text) ELSE "v4"

\* CacheService.set_cached_embedding(text, embedding, model_name)
SetCachedEmbedding ==
    \E text \in Texts, model_name \in Models :
        /\ embedding_cache' = set_cached_embedding(embedding_cache, text,
                                                   ModelVec(text, model_name), model_name)
        /\ last' = [LastBase EXCEPT !.op = "set_embedding", !.text = text,
                                    !.arg = <<model_name>>,
                                    !.vecs = <<ModelVec(text, model_name)>>]
        /\ UNCHANGED <<intent_exemplar, memory_cache, initialized, vectorVars>>

\* CacheService.get_cached_embedding(text, model_name)
GetCachedEmbedding ==
    \E text \in Texts, model_name \in Models :
        /\ last' = [LastBase EXCEPT !.op = "get_embedding", !.text = text,
                                    !.arg = <<model_name>>,
                                    !.result = get_cached_embedding(embedding_cache, text,
                                                                    model_name)]
        /\ UNCHANGED <<intentVars, vectorVars>>

\* the embedding service on its own
NextEmbedding ==
    \/ NewEmbeddingService
    \/ GetTextEmbedding
    \/ GetBatchEmbeddings
    \/ SetCachedEmbedding
    \/ GetCachedEmbedding

SpecEmbedding == Init /\ [][NextEmbedding]_vars

\* ------------------------------------------------------------------ bulk loading

\* the corpora load_exemplars_bulk is called with
Corpora ==
    {<<<<"PRODUCT_SEARCH", <<"p1", "p2">>>>>>,
     <<<<"PRODUCT_SEARCH", <<"p1">>>>, <<"STORE_INFO", <<"p1">>>>>>,
     <<<<"STORE_INFO", <<"p2">>>>>>}

BulkFaults ==
    {<<"none", 0, 0>>, <<"provider", 1, 0>>, <<"provider", 2, 0>>, <<"read", 1, 0>>,
     <<"write", 1, 0>>, <<"upsert", 1, 1>>, <<"upsert", 1, 2>>, <<"upsert", 2, 1>>}

\* the (intent, phrase) pairs of a corpus
CorpusKeys(exemplars) ==
    {k \in Keys : \E j \in 1..Len(exemplars) :
        /\ exemplars[j][1] = k[1]
        /\ \E i \in 1..Len(exemplars[j][2]) : exemplars[j][2][i] = k[2]}

LoadExemplarsBulk ==
    \E exemplars \in Corpora, default_threshold \in Thresholds, fault \in BulkFaults :
        LET o == load_exemplars_bulk(intent_exemplar, memory_cache, embedding_cache,
                                     initialized, exemplars, default_threshold, fault)
        IN /\ RowCount(o.ex) <= MaxExemplars
           /\ intent_exemplar' = o.ex
           /\ memory_cache' = o.mem
           /\ embedding_cache' = o.db
           /\ last' = [LastBase EXCEPT !.op = "bulk_load",
                                       !.arg = <<exemplars, default_threshold, fault>>,
                                       !.raised = o.raised,
                                       !.result = [count |-> o.count]]
           /\ UNCHANGED <<initialized, vectorVars>>

\* ExemplarService.increment_usage(exemplar_id)
IncrementUsage ==
    \E k \in Keys :
        /\ intent_exemplar[k] # NoRow
        /\ intent_exemplar[k].usage_count < MaxUsage
        /\ intent_exemplar' = increment_usage(intent_exemplar, k)
        /\ last' = [LastBase EXCEPT !.op = "increment_usage"]
        /\ UNCHANGED <<memory_cache, embedding_cache, initialized, vectorVars>>

NextBulk ==
    \/ NewEmbeddingService
    \/ LoadExemplarsBulk
    \/ DeleteExemplar
    \/ IncrementUsage

SpecBulk == Init /\ [][NextBulk]_vars

\* ------------------------------------------------------------------ concurrent embedding calls

Requests == {1, 2}

\* Two get_text_embedding calls (use_cache = True) are accepted together, each
\* on the EmbeddingService instance of its session: the same instance, or two
\* instances with a memory map each. The tables are shared.
StartRequests ==
    /\ ~requests.started
    /\ \E other \in Requests, ta \in Texts, tb \in Texts :
        requests' = [started |-> TRUE,
                     svc |-> <<1, other>>,
                     text |-> <<ta, tb>>,
                     pc |-> <<"lookup", "lookup">>,
                     vec |-> <<NoVec, NoVec>>,
                     raised |-> <<"none", "none">>,
                     mems |-> <<[t \in Texts |-> NoVec], [t \in Texts |-> NoVec]>>]
    /\ UNCHANGED <<intentVars, product, vector_search_cache, response_cache, now, last>>

\* up to the provider call: the memory map, then the table (embedding.py:53-75)
ReqLookup(r) ==
    /\ requests.started
    /\ requests.pc[r] = "lookup"
    /\ LET text == requests.text[r]
           mem == requests.mems[requests.svc[r]]
           cached == get_cached_embedding(embedding_cache, text, EMBEDDING_MODEL)
       IN requests' =
            IF mem[text] # NoVec
            THEN [requests EXCEPT !.pc[r] = "done", !.vec[r] = mem[text]]
            ELSE IF cached # None
            THEN IF "embedding_data" \in EmbeddingCacheFields
                 THEN [requests EXCEPT !.pc[r] = "done", !.vec[r] = cached.embedding,
                                       !.mems[requests.svc[r]][text] = cached.embedding]
                 ELSE [requests EXCEPT !.pc[r] = "done", !.raised[r] = "AttributeError"]
            ELSE [requests EXCEPT !.pc[r] = "generate"]
    /\ UNCHANGED <<intentVars, product, vector_search_cache, response_cache, now, last>>

\* the provider call returns or raises; the memory map is assigned before the
\* write to the table is awaited (embedding.py:78-85)
ReqGenerate(r) ==
    /\ requests.started
    /\ requests.pc[r] = "generate"
    /\ LET text == requests.text[r]
           gen == vertex_get_text_embedding(initialized, text, "none")
       IN requests' =
            IF gen.raised # "none"
            THEN [requests EXCEPT !.pc[r] = "done", !.raised[r] = gen.raised]
            ELSE [requests EXCEPT !.pc[r] = "write", !.vec[r] = gen.vec,
                                  !.mems[requests.svc[r]][text] = gen.vec]
    /\ UNCHANGED <<intentVars, product, vector_search_cache, response_cache, now, last>>

\* the upsert into embedding_cache is executed and the call returns
\* (embedding.py:85-100)
ReqWrite(r) ==
    /\ requests.started
    /\ requests.pc[r] = "write"
    /\ embedding_cache' = set_cached_embedding(embedding_cache, requests.text[r],
                                               requests.vec[r], EMBEDDING_MODEL)
    /\ requests' = [requests EXCEPT !.pc[r] = "done"]
    /\ UNCHANGED <<intent_exemplar, memory_cache, initialized, product,
                   vector_search_cache, response_cache, now, last>>

NextConcurrent ==
    \/ StartRequests
    \/ \E r \in Requests : ReqLookup(r)
    \/ \E r \in Requests : ReqGenerate(r)
    \/ \E r \in Requests : ReqWrite(r)

SpecConcurrent == Init /\ [][NextConcurrent]_vars

\* ------------------------------------------------------------------ product and cache calls

\* the clock advances by a tick
Tick ==
    /\ now < MaxTime
    /\ now' = now + 1
    /\ last' = [LastBase EXCEPT !.op = "tick"]
    /\ UNCHANGED <<intentVars, requests, product, vector_search_cache, response_cache>>

\* upsert_product on an existing sku: the stock flag changes
UpsertProduct ==
    \E id \in ProductIds, in_stock \in BOOLEAN :
        /\ product' = [product EXCEPT ![id].in_stock = in_stock]
        /\ last' = [LastBase EXCEPT !.op = "upsert_product"]
        /\ UNCHANGED <<intentVars, requests, vector_search_cache, response_cache, now>>

UpdateProductEmbedding ==
    \E id \in ProductIds :
        /\ product' = [product EXCEPT ![id].embedding = IF id = 1 THEN "v2" ELSE "v5"]
        /\ last' = [LastBase EXCEPT !.op = "update_product_embedding"]
        /\ UNCHANGED <<intentVars, requests, vector_search_cache, response_cache, now>>

\* the thresholds and limits the plain search is called with
DirectThresholds == {60, 64, 80}
DirectLimits == {1, 2}

\* ProductService.vector_similarity_search(query_embedding, similarity_threshold, limit)
VectorSimilaritySearch ==
    \E q \in ProductQueryVecs, threshold \in DirectThresholds, limit \in DirectLimits :
        \E rows \in vector_similarity_search(product, q, threshold, limit) :
            /\ last' = [LastBase EXCEPT !.op = "product_search",
                                        !.arg = <<q, threshold, limit>>,
                                        !.rows = rows]
            /\ UNCHANGED <<intentVars, vectorVars>>

HitsInBound(cache) ==
    \A k \in DOMAIN cache : cache[k] # NoRow => cache[k].hit_count <= MaxHits

VectorSimilaritySearchWithCache ==
    \E q \in ProductQueryVecs, threshold \in SearchThresholds, limit \in SearchLimits :
        \E o \in vector_similarity_search_with_cache(product, vector_search_cache, q,
                                                     threshold, limit, now) :
            /\ HitsInBound(o.cache)
            /\ vector_search_cache' = o.cache
            /\ last' = [LastBase EXCEPT !.op = "vsearch",
                                        !.arg = <<q, threshold, limit>>,
                                        !.rows = o.results,
                                        !.result = [cache_hit |-> o.cache_hit]]
            /\ UNCHANGED <<intentVars, requests, product, response_cache, now>>

SetCachedResponse ==
    \E k \in CacheKeys, response_data \in ResponseData, ttl_minutes \in TTLMinutes :
        /\ response_cache' = set_cached_response(response_cache, k, response_data,
                                                 ttl_minutes, now)
        /\ last' = [LastBase EXCEPT !.op = "set_response", !.text = k,
                                    !.arg = <<response_data, ttl_minutes>>]
        /\ UNCHANGED <<intentVars, requests, product, vector_search_cache, now>>

GetCachedResponse ==
    \E k \in CacheKeys :
        /\ last' = [LastBase EXCEPT !.op = "get_response", !.text = k,
                                    !.result = get_cached_response(response_cache, k, now)]
        /\ UNCHANGED <<intentVars, vectorVars>>

\* the cache family's cleanup of expired entries
CleanupExpiredResponses ==
    /\ response_cache' = cleanup_expired_responses(response_cache, now)
    /\ last' = [LastBase EXCEPT !.op = "cleanup_expired"]
    /\ UNCHANGED <<intentVars, requests, product, vector_search_cache, now>>

NextVector ==
    \/ Tick
    \/ UpsertProduct
    \/ UpdateProductEmbedding
    \/ VectorSimilaritySearch
    \/ VectorSimilaritySearchWithCache
    \/ CleanupExpiredResponses

\* the response cache on its own
NextResponse ==
    \/ Tick
    \/ SetCachedResponse
    \/ GetCachedResponse
    \/ CleanupExpiredResponses

\* the provider plays no part here
InitVector == Init /\ initialized

SpecVector == InitVector /\ [][NextVector]_vars

SpecResponse == InitVector /\ [][NextResponse]_vars

\* ------------------------------------------------------------------ properties

Classified == last.op = "classify" /\ last.raised = "none"

\* C1: the best candidate is accepted when its similarity equals its own
\* confidence_threshold, and the result is the GENERAL_CONVERSATION fallback
\* when its similarity is strictly below its own confidence_threshold.
Thm_C1 ==
    (Classified /\ last.best_match # NoMatch) =>
        LET b == last.best_match
        IN /\ b.similarity = b.confidence_threshold =>
                (last.result.intent = b.intent /\ last.result.fallback_used = FALSE)
           /\ b.similarity < b.confidence_threshold =>
                (last.result.intent = "GENERAL_CONVERSATION"
                    /\ last.result.fallback_used = TRUE)

Wit_C1 ==
    /\ Classified
    /\ last.best_match # NoMatch
    /\ last.best_match.similarity = last.best_match.confidence_threshold
    /\ last.result.fallback_used = FALSE

Thm_C3 ==
    [][(/\ last'.op = "classify"
        /\ last'.raised = "none"
        /\ last'.best_match # NoMatch
        /\ last'.best_match.similarity >= last'.best_match.confidence_threshold)
       => LET b == last'.best_match
              k == <<b.intent, b.phrase>>
          IN /\ last'.result.intent = b.intent
             /\ last'.result.confidence = b.similarity
             /\ last'.result.exemplar_phrase = b.phrase
             /\ last'.result.fallback_used = FALSE
             /\ intent_exemplar[k] # NoRow
             /\ intent_exemplar'[k] # NoRow
             /\ intent_exemplar'[k].usage_count = intent_exemplar[k].usage_count + 1
             /\ \A j \in Keys \ {k} : intent_exemplar'[j] = intent_exemplar[j]]_vars

\* an accepted classification while a second exemplar shares the phrase
Wit_C3 ==
    /\ Classified
    /\ last.result.fallback_used = FALSE
    /\ RowCount(intent_exemplar) = 2
    /\ \A k \in Keys : intent_exemplar[k] # NoRow => k[2] = last.result.exemplar_phrase

\* C4: when the best candidate is above the floor but below its own
\* confidence_threshold, the result is GENERAL_CONVERSATION with the
\* candidate's similarity and phrase and fallback_used = true, and no
\* exemplar changes.
Thm_C4 ==
    [][(/\ last'.op = "classify"
        /\ last'.raised = "none"
        /\ last'.best_match # NoMatch
        /\ last'.best_match.similarity > last'.arg[1]
        /\ last'.best_match.similarity < last'.best_match.confidence_threshold)
       => /\ last'.result.intent = "GENERAL_CONVERSATION"
          /\ last'.result.confidence = last'.best_match.similarity
          /\ last'.result.exemplar_phrase = last'.best_match.phrase
          /\ last'.result.fallback_used = TRUE
          /\ intent_exemplar' = intent_exemplar]_vars

Wit_C4 ==
    /\ Classified
    /\ last.best_match # NoMatch
    /\ last.best_match.similarity < last.best_match.confidence_threshold
    /\ last.result.fallback_used = TRUE

\* C5: when the embedding provider fails during a classification, the caller
\* gets that error, on the IntentService path and on the AgentToolsService path.
CE_C5 ==
    (last.op \in {"classify", "tool_classify"}
        /\ last.inner \in {"ValueError", "RuntimeError"})
    => last.raised = last.inner

\* C7: the first classification of a text never embedded before reports
\* embedding_cache_hit = false, and the classification of the same text right
\* after it, served from the cache, reports embedding_cache_hit = true.
CE_C7 ==
    [][(/\ last.op = "classify" /\ last.raised = "none" /\ last.source = "provider"
        /\ last'.op = "classify" /\ last'.raised = "none"
        /\ last'.text = last.text
        /\ last'.source \in {"memory", "db"})
       => /\ last.result.embedding_cache_hit = FALSE
          /\ last'.result.embedding_cache_hit = TRUE]_vars

CE_C6 ==
    [][(/\ last.op = "embed" /\ last.raised = "none" /\ last.arg = <<TRUE>>
        /\ embedding_cache[_hash_text(last.text)] # NoRow
        /\ last'.op = "embed" /\ last'.raised = "none" /\ last'.arg = <<TRUE>>
        /\ last'.text = last.text)
       => LET h == _hash_text(last.text)
          IN /\ last'.vecs = last.vecs
             /\ embedding_cache'[h] # NoRow
             /\ embedding_cache'[h].model = EMBEDDING_MODEL
             /\ embedding_cache'[h].hit_count = embedding_cache[h].hit_count + 1]_vars

\* C8: with the store and the provider answering, get_batch_embeddings sends
\* to the provider exactly the texts that are in neither the memory map nor
\* the persistent cache when looked up, and returns one vector per text, in
\* order, each the vector of its text.
CE_C8 ==
    [][(/\ last'.op = "batch"
        /\ last'.arg[1] = TRUE
        /\ last'.raised \notin {"StoreError", "ValueError", "RuntimeError"})
       => LET texts == last'.arg[2]
              Uncached(t) ==
                  /\ memory_cache[t] = NoVec
                  /\ get_cached_embedding(embedding_cache, t, EMBEDDING_MODEL) = None
          IN /\ last'.raised = "none"
             /\ last'.sent = SelectSeq(texts, Uncached)
             /\ Len(last'.vecs) = Len(texts)
             /\ \A i \in 1..Len(texts) : last'.vecs[i] = ProviderVec(texts[i])]_vars

\* C10: a vector_search_cache entry is never served once its expires_at has
\* passed, and after a cleanup of expired entries no expired entry is left in
\* the vector_search_cache table.
CE_C10 ==
    /\ (last.op = "vsearch" /\ last.result.cache_hit) =>
            LET k == _generate_vector_cache_key(last.arg[1], last.arg[2], last.arg[3])
            IN vector_search_cache[k] # NoRow /\ vector_search_cache[k].expires_at > now
    /\ last.op = "cleanup_expired" =>
            \A k \in VectorKeys :
                vector_search_cache[k] # NoRow => vector_search_cache[k].expires_at >= now

\* C13: when the provider has returned the vector and the write to the
\* persistent cache fails, get_text_embedding and get_batch_embeddings still
\* return the generated vectors and raise nothing.
Thm_C13 ==
    [][/\ (/\ last'.op = "embed" /\ last'.fault = "write" /\ last'.arg = <<TRUE>>
           /\ initialized
           /\ memory_cache[last'.text] = NoVec
           /\ get_cached_embedding(embedding_cache, last'.text, EMBEDDING_MODEL) = None)
          => /\ last'.raised = "none"
             /\ last'.vecs = <<ProviderVec(last'.text)>>
       /\ (/\ last'.op = "batch" /\ last'.fault = "write" /\ last'.arg[1] = TRUE
           /\ initialized
           /\ \A i \in 1..Len(last'.arg[2]) :
                get_cached_embedding(embedding_cache, last'.arg[2][i], EMBEDDING_MODEL) = None
           /\ \E i \in 1..Len(last'.arg[2]) : memory_cache[last'.arg[2][i]] = NoVec)
          => /\ last'.raised = "none"
             /\ Len(last'.vecs) = Len(last'.arg[2])
             /\ \A i \in 1..Len(last'.arg[2]) :
                    last'.vecs[i] = ProviderVec(last'.arg[2][i])]_vars

\* a generated vector returned although its row was not written
Wit_C13 ==
    /\ last.op = "embed" /\ last.fault = "write" /\ last.arg = <<TRUE>>
    /\ last.raised = "none"
    /\ last.source = "provider"
    /\ embedding_cache[_hash_text(last.text)] = NoRow

\* C14: when the read of the persistent embedding cache fails during
\* get_text_embedding, the call goes on as on a miss: it asks the provider and
\* returns the generated vector, raising nothing.
CE_C14 ==
    [][(/\ last'.op = "embed" /\ last'.fault = "read" /\ last'.arg = <<TRUE>>
        /\ initialized
        /\ memory_cache[last'.text] = NoVec)
       => /\ last'.raised = "none"
          /\ last'.vecs = <<ProviderVec(last'.text)>>]_vars

\* C17: an embedding_cache entry stored for a text under one model is still
\* returned by get_cached_embedding for that model after the same text is
\* stored under another model, and get_cached_embedding never returns an
\* entry stored under a model other than the one asked for.
CE_C17 ==
    [][/\ (last'.op = "set_embedding") =>
            \A m \in Models \ {last'.arg[1]} :
                get_cached_embedding(embedding_cache, last'.text, m) # None =>
                    /\ get_cached_embedding(embedding_cache', last'.text, m) # None
                    /\ get_cached_embedding(embedding_cache', last'.text, m).embedding
                         = get_cached_embedding(embedding_cache, last'.text, m).embedding
       /\ (last'.op = "get_embedding" /\ last'.result # None) =>
            last'.result.model = last'.arg[1]]_vars

\* C11: load_exemplars_bulk never removes or duplicates a row and touches only
\* the (intent, phrase) pairs of its corpus; run on a corpus whose pairs are
\* all stored already, it leaves the number of rows as it was; and a run that
\* returns with no item failed leaves, for every pair of the corpus, one row
\* holding the phrase's embedding and the threshold of this run, the row's
\* usage_count kept (updated in place), and returns the number of pairs.
Thm_C11 ==
    [][(last'.op = "bulk_load") =>
        LET exemplars == last'.arg[1]
            default_threshold == last'.arg[2]
            fault == last'.arg[3]
            ck == CorpusKeys(exemplars)
        IN /\ \A k \in Keys : intent_exemplar[k] # NoRow => intent_exemplar'[k] # NoRow
           /\ \A k \in Keys \ ck : intent_exemplar'[k] = intent_exemplar[k]
           /\ (\A k \in ck : intent_exemplar[k] # NoRow)
                => RowCount(intent_exemplar') = RowCount(intent_exemplar)
           /\ (last'.raised = "none" /\ fault[1] # "upsert") =>
                /\ last'.result.count = Cardinality(ck)
                /\ \A k \in ck :
                    /\ intent_exemplar'[k] # NoRow
                    /\ intent_exemplar'[k].embedding = ProviderVec(k[2])
                    /\ intent_exemplar'[k].confidence_threshold = default_threshold
                    /\ intent_exemplar'[k].usage_count =
                            IF intent_exemplar[k] = NoRow THEN 0
                            ELSE intent_exemplar[k].usage_count]_vars

\* a run that returned over a pair stored before it (its usage_count is not
\* that of a new row)
Wit_C11 ==
    /\ last.op = "bulk_load" /\ last.raised = "none" /\ last.arg[3][1] = "none"
    /\ \E k \in CorpusKeys(last.arg[1]) :
        /\ intent_exemplar[k] # NoRow
        /\ intent_exemplar[k].usage_count > 0
        /\ intent_exemplar[k].confidence_threshold = last.arg[2]
    /\ RowCount(intent_exemplar) = Cardinality(CorpusKeys(last.arg[1]))

\* C12: when one item of a bulk load fails (the embedding call of an intent's
\* phrases raising, or one phrase's upsert failing), load_exemplars_bulk does
\* not raise, every pair not hit by the failure is loaded, and the count of
\* the loaded pairs is returned.
CE_C12 ==
    [][(/\ last'.op = "bulk_load"
        /\ initialized
        /\ last'.arg[3][1] \in {"provider", "upsert"}
        /\ last'.arg[3][2] <= Len(last'.arg[1])
        /\ \A k \in CorpusKeys(last'.arg[1]) :
                get_cached_embedding(embedding_cache, k[2], EMBEDDING_MODEL) = None)
       => LET exemplars == last'.arg[1]
              fault == last'.arg[3]
              j == fault[2]
              hit == IF fault[1] = "upsert"
                     THEN {k \in CorpusKeys(exemplars) :
                             /\ fault[3] <= Len(exemplars[j][2])
                             /\ k = <<exemplars[j][1], exemplars[j][2][fault[3]]>>}
                     ELSE {k \in CorpusKeys(exemplars) : k[1] = exemplars[j][1]}
              rest == CorpusKeys(exemplars) \ hit
          IN /\ last'.raised = "none"
             /\ last'.result.count = Cardinality(rest)
             /\ \A k \in rest :
                    /\ intent_exemplar'[k] # NoRow
                    /\ intent_exemplar'[k].confidence_threshold = last'.arg[2]]_vars

\* C15: vector_similarity_search returns exactly the products that have an
\* embedding, are in stock and have similarity >= similarity_threshold (equal
\* included), in descending order of similarity, cut to at most limit with no
\* product left out that is closer than one returned.
Thm_C15 ==
    last.op = "product_search" =>
        LET q == last.arg[1]
            similarity_threshold == last.arg[2]
            limit == last.arg[3]
            rows == last.rows
            n == Len(rows)
            sim(id) == Similarity(product[id].embedding, q)
            hits == {id \in ProductIds :
                        /\ product[id].embedding # NoVec
                        /\ product[id].in_stock
                        /\ sim(id) >= similarity_threshold}
            inside == {rows[i].id : i \in 1..n}
        IN /\ n = Min(limit, Cardinality(hits))
           /\ inside \subseteq hits
           /\ Cardinality(inside) = n
           /\ \A i \in 1..n : rows[i].similarity_score = sim(rows[i].id)
           /\ \A i, j \in 1..n : i < j => rows[i].similarity_score >= rows[j].similarity_score
           /\ \A id \in hits \ inside : \A i \in 1..n : sim(id) <= rows[i].similarity_score

\* two products returned, the second with similarity equal to the threshold
Wit_C15 ==
    /\ last.op = "product_search"
    /\ Len(last.rows) = 2
    /\ last.rows[1].similarity_score > last.rows[2].similarity_score
    /\ last.rows[2].similarity_score = last.arg[2]

\* C16: when no unexpired entry exists for the key,
\* vector_similarity_search_with_cache reports cache_hit = false, and when the
\* real search returned at least one product it writes the id list through, so
\* that the identical call made before the TTL elapses reports cache_hit =
\* true; when an unexpired entry exists it reports cache_hit = true.
Thm_C16 ==
    [][(last'.op = "vsearch") =>
        LET q == last'.arg[1]
            threshold == last'.arg[2]
            limit == last'.arg[3]
            k == _generate_vector_cache_key(q, threshold, limit)
            cached == _get_cached_vector_search(vector_search_cache, k, now)
        IN /\ cached # None => last'.result.cache_hit = TRUE
           /\ cached = None =>
                /\ last'.result.cache_hit = FALSE
                /\ last'.rows # <<>> =>
                    /\ vector_search_cache'[k] # NoRow
                    /\ vector_search_cache'[k].product_ids
                         = [i \in 1..Len(last'.rows) |-> last'.rows[i].id]
                    /\ vector_search_cache'[k].expires_at = now + VECTOR_CACHE_TTL
                    /\ \A t \in now..(now + VECTOR_CACHE_TTL - 1) :
                         \A o \in vector_similarity_search_with_cache(
                                     product', vector_search_cache', q, threshold, limit, t) :
                            o.cache_hit]_vars

\* a miss that wrote its result through
Wit_C16 ==
    /\ last.op = "vsearch"
    /\ last.result.cache_hit = FALSE
    /\ last.rows # <<>>
    /\ LET k == _generate_vector_cache_key(last.arg[1], last.arg[2], last.arg[3])
       IN /\ vector_search_cache[k] # NoRow
          /\ vector_search_cache[k].expires_at = now + VECTOR_CACHE_TTL

\* C16 as stated: on a miss the result is written through for every result of
\* the real search, the empty one included, so that the identical call made
\* before the TTL elapses reports cache_hit = true.
CE_C16 ==
    [][(last'.op = "vsearch") =>
        LET q == last'.arg[1]
            threshold == last'.arg[2]
            limit == last'.arg[3]
            k == _generate_vector_cache_key(q, threshold, limit)
            cached == _get_cached_vector_search(vector_search_cache, k, now)
        IN cached = None =>
                /\ last'.result.cache_hit = FALSE
                /\ vector_search_cache'[k] # NoRow
                /\ \A t \in now..(now + VECTOR_CACHE_TTL - 1) :
                     \A o \in vector_similarity_search_with_cache(
                                 product', vector_search_cache', q, threshold, limit, t) :
                        o.cache_hit]_vars

\* C18: get_cached_response returns the stored entry if and only if an entry
\* with the key exists and its expires_at is null or later than now; after
\* set_cached_response the key's one entry holds the response_data and the
\* expiry of that set.
Thm_C18 ==
    /\ last.op = "get_response" =>
        LET row == response_cache[last.text]
        IN /\ last.result # None <=>
                (row # NoRow /\ (IsNull(row.expires_at) \/ row.expires_at > now))
           /\ last.result # None => last.result = row
    /\ last.op = "set_response" =>
        LET row == response_cache[last.text]
        IN /\ row # NoRow
           /\ row.response_data = last.arg[1]
           /\ row.expires_at = now + last.arg[2] * TicksPerMinute

\* a lookup that found the key's entry expired and returned nothing
Wit_C18 ==
    /\ last.op = "get_response"
    /\ last.result = None
    /\ response_cache[last.text] # NoRow
    /\ response_cache[last.text].expires_at <= now

\* C19: when two concurrent calls embed the same text, not cached when they
\* were accepted, and the provider is available, then whatever the
\* interleaving of their lookups, provider calls and cache writes, both calls
\* return, with the same vector, and the persistent cache holds the row of
\* the text.
CE_C19 ==
    (/\ requests.started
     /\ requests.pc = <<"done", "done">>
     /\ requests.text[1] = requests.text[2]
     /\ initialized)
    => /\ requests.raised = <<"none", "none">>
       /\ requests.vec[1] = requests.vec[2]
       /\ requests.vec[1] = ProviderVec(requests.text[1])
       /\ embedding_cache[_hash_text(requests.text[1])] # NoRow

\* C20: for the exemplars stored and a query embedding, every run of
\* classify_intent gives the same intent, confidence and exemplar_phrase, also
\* when exemplars tie for the highest similarity.
CE_C20 ==
    \A q \in QueryVecs, min_threshold \in MinThresholds :
        Cardinality({<<o.result.intent, o.result.confidence, o.result.exemplar_phrase>> :
                        o \in classify_intent(intent_exemplar, memory_cache,
                                              embedding_cache, initialized, "t1", q,
                                              min_threshold, DefaultMaxResults,
                                              "none")}) = 1

\* ------------------------------------------------ classify with alternatives

alternatives_decision_no_usage(ex, similar_intents, embedding_cache_hit) ==
    IF similar_intents = <<>>
    THEN [result |-> IntentResult("GENERAL_CONVERSATION", 0, "", embedding_cache_hit, TRUE),
          alternatives |-> <<>>, ex |-> ex]
    ELSE LET best_match == similar_intents[1]
         IN IF best_match.similarity >= best_match.confidence_threshold
            THEN [result |-> IntentResult(best_match.intent, best_match.similarity,
                                          best_match.phrase, embedding_cache_hit, FALSE),
                  alternatives |-> similar_intents,
                  ex |-> ex]
            ELSE [result |-> IntentResult("GENERAL_CONVERSATION", best_match.similarity,
                                          best_match.phrase, embedding_cache_hit, TRUE),
                  alternatives |-> similar_intents, ex |-> ex]

\* classify_intent_with_alternatives after the search: the primary result, the
\* list it returns beside it and the exemplar table afterwards
alternatives_decision(ex, similar_intents, embedding_cache_hit) ==
    IF similar_intents = <<>>
    THEN [result |-> IntentResult("GENERAL_CONVERSATION", 0, "", embedding_cache_hit, TRUE),
          alternatives |-> <<>>, ex |-> ex]
    ELSE LET best_match == similar_intents[1]
         IN IF best_match.similarity >= best_match.confidence_threshold
            THEN [result |-> IntentResult(best_match.intent, best_match.similarity,
                                          best_match.phrase, embedding_cache_hit, FALSE),
                  alternatives |-> similar_intents,
                  ex |-> increment_usage_by_phrase(ex, best_match.intent, best_match.phrase)]
            ELSE [result |-> IntentResult("GENERAL_CONVERSATION", best_match.similarity,
                                          best_match.phrase, embedding_cache_hit, TRUE),
                  alternatives |-> similar_intents, ex |-> ex]

\* IntentService.classify_intent_with_alternatives: every outcome the call can have
classify_intent_with_alternatives(ex, mem, db, init, query, user_embedding, min_threshold, max_results, fault) ==
    LET e == IF user_embedding = NoVec
             THEN get_text_embedding(mem, db, init, query, TRUE, fault)
             ELSE [raised |-> "none", vec |-> user_embedding, source |-> "given",
                   mem |-> mem, db |-> db]
    IN IF e.raised # "none"
       THEN {[raised |-> e.raised, result |-> NoResult, alternatives |-> <<>>,
              vec |-> e.vec, source |-> e.source, ex |-> ex, mem |-> e.mem, db |-> e.db]}
       ELSE {LET d == alternatives_decision(ex, similar_intents, user_embedding # NoVec)
             IN [raised |-> "none", result |-> d.result, alternatives |-> d.alternatives,
                 vec |-> e.vec, source |-> e.source, ex |-> d.ex, mem |-> e.mem,
                 db |-> e.db] :
             similar_intents \in search_similar_intents(ex, e.vec, min_threshold,
                                                        max_results)}

ClassifyIntentWithAlternatives ==
    \E inp \in ClassifyInputs, min_threshold \in MinThresholds,
       max_results \in {1, DefaultMaxResults} :
        \E o \in classify_intent_with_alternatives(intent_exemplar, memory_cache,
                                                   embedding_cache, initialized, inp[1],
                                                   inp[2], min_threshold, max_results,
                                                   inp[3]) :
            /\ UsageInBound(o.ex)
            /\ intent_exemplar' = o.ex
            /\ memory_cache' = o.mem
            /\ embedding_cache' = o.db
            /\ last' = [LastBase EXCEPT !.op = "classify_alt", !.text = inp[1],
                                        !.arg = <<min_threshold, inp[2], max_results>>,
                                        !.raised = o.raised, !.inner = o.raised,
                                        !.result = o.result, !.rows = o.alternatives,
                                        !.vecs = <<o.vec>>, !.source = o.source,
                                        !.fault = inp[3]]
            /\ UNCHANGED <<initialized, vectorVars>>

NextAlternatives ==
    \/ NewEmbeddingService
    \/ UpsertExemplar
    \/ DeleteExemplar
    \/ ClassifyIntent
    \/ ClassifyIntentWithAlternatives

SpecAlternatives == Init /\ [][NextAlternatives]_vars

\* what the two entry points are compared on: the primary result, what was
\* raised, and every table afterwards
Primary(o) == [raised |-> o.raised, result |-> o.result, ex |-> o.ex, mem |-> o.mem, db |-> o.db]

\* C21: for the same query, embedding, floor, limit and tables,
\* classify_intent_with_alternatives has exactly the outcomes of classify_intent
\* as far as the primary result (intent, confidence, exemplar_phrase,
\* embedding_cache_hit, fallback_used), the exception and the tables afterwards
\* (usage_count included) go; the list it returns beside the primary result is
\* a list the search returns for that query, and it is empty exactly when the
\* primary result is the no-candidate fallback (confidence 0.0, phrase "").
Thm_C21 ==
    [][last'.op = "classify_alt" =>
        LET min_threshold == last'.arg[1]
            user_embedding == last'.arg[2]
            max_results == last'.arg[3]
            plain == classify_intent(intent_exemplar, memory_cache, embedding_cache,
                                     initialized, last'.text, user_embedding,
                                     min_threshold, max_results, last'.fault)
            withalt == classify_intent_with_alternatives(
                           intent_exemplar, memory_cache, embedding_cache, initialized,
                           last'.text, user_embedding, min_threshold, max_results,
                           last'.fault)
        IN /\ {Primary(o) : o \in plain} = {Primary(o) : o \in withalt}
           /\ \E o \in plain : /\ o.raised = last'.raised
                               /\ o.result = last'.result
                               /\ o.ex = intent_exemplar'
                               /\ o.mem = memory_cache'
                               /\ o.db = embedding_cache'
           /\ last'.raised = "none" =>
                /\ last'.rows \in search_similar_intents(intent_exemplar, last'.vecs[1],
                                                         min_threshold, max_results)
                /\ (last'.rows = <<>>) <=>
                       (last'.result.fallback_used /\ last'.result.exemplar_phrase = "")
                /\ last'.rows # <<>> =>
                       /\ last'.result.confidence = last'.rows[1].similarity
                       /\ last'.result.exemplar_phrase = last'.rows[1].phrase]_vars

\* an accepted primary result returned beside a list of two candidates, the
\* usage_count of the first one incremented
Wit_C21 ==
    /\ last.op = "classify_alt"
    /\ last.raised = "none"
    /\ Len(last.rows) = 2
    /\ ~last.result.fallback_used
    /\ last.result.intent = last.rows[1].intent
    /\ intent_exemplar[<<last.rows[1].intent, last.rows[1].phrase>>].usage_count = 1

\* ------------------------------------------------ vector search cache failures

\* which statement on vector_search_cache fails during one call, if any:
\* the SELECT of _get_cached_vector_search, the UPDATE of _update_cache_hit or
\* the INSERT of _cache_vector_search_results
CacheFaults == {"none", "lookup", "hit", "write"}

\* vector_similarity_search_with_cache when a cache statement may fail: the
\* method has no try/except, so the driver's error leaves it at the await
\* that failed
vector_similarity_search_with_cache_fault(prod, cache, query_embedding, similarity_threshold, limit, t, fault) ==
    LET cache_key == _generate_vector_cache_key(query_embedding, similarity_threshold,
                                                limit)
        cached == _get_cached_vector_search(cache, cache_key, t)
        failed == [raised |-> "DatabaseError", results |-> <<>>, cache_hit |-> FALSE,
                   cache |-> cache]
    IN IF fault = "lookup"
       THEN {failed}
       ELSE IF cached # None
       THEN IF fault = "hit"
            THEN {failed}
            ELSE {[raised |-> "none",
                   results |-> _fetch_products_by_ids(prod, cached.product_ids,
                                                      query_embedding),
                   cache_hit |-> TRUE,
                   cache |-> _update_cache_hit(cache, cache_key, t)]}
       ELSE {IF results # <<>> /\ fault = "write"
             THEN failed
             ELSE [raised |-> "none", results |-> results, cache_hit |-> FALSE,
                   cache |-> IF results # <<>>
                             THEN _cache_vector_search_results(cache, cache_key, results,
                                                               similarity_threshold,
                                                               limit, t)
                             ELSE cache] :
             results \in vector_similarity_search(prod, query_embedding,
                                                  similarity_threshold, limit)}

VectorSimilaritySearchWithCacheFault ==
    \E q \in ProductQueryVecs, threshold \in SearchThresholds, limit \in SearchLimits,
       fault \in CacheFaults :
        \E o \in vector_similarity_search_with_cache_fault(product, vector_search_cache,
                                                           q, threshold, limit, now,
                                                           fault) :
            /\ HitsInBound(o.cache)
            /\ vector_search_cache' = o.cache
            /\ last' = [LastBase EXCEPT !.op = "vsearch_fault",
                                        !.arg = <<q, threshold, limit>>,
                                        !.raised = o.raised,
                                        !.rows = o.results,
                                        !.result = [cache_hit |-> o.cache_hit],
                                        !.fault = fault]
            /\ UNCHANGED <<intentVars, requests, product, response_cache, now>>

NextVectorFault ==
    \/ Tick
    \/ UpsertProduct
    \/ VectorSimilaritySearchWithCacheFault

SpecVectorFault == InitVector /\ [][NextVectorFault]_vars

\* C22: a call of vector_similarity_search_with_cache during which a statement
\* on the vector search cache fails (the lookup, the hit-count update or the
\* write-through) raises nothing and returns a result list of the real
\* similarity search.
CE_C22 ==
    (last.op = "vsearch_fault" /\ last.fault # "none") =>
        /\ last.raised = "none"
        /\ last.rows \in vector_similarity_search(product, last.arg[1], last.arg[2],
                                                  last.arg[3])

\* C23: a get_text_embedding call (use_cache = true, nothing failing) that
\* finds the text not in the memory map but in the persistent cache under the
\* model returns the stored vector without asking the provider, leaves that
\* vector in the memory map, and raises the row's hit_count by exactly 1.
CE_C23 ==
    [][(/\ last'.op = "embed" /\ last'.arg = <<TRUE>> /\ last'.fault = "none"
        /\ memory_cache[last'.text] = NoVec
        /\ get_cached_embedding(embedding_cache, last'.text, EMBEDDING_MODEL) # None)
       => LET h == _hash_text(last'.text)
          IN /\ last'.raised = "none"
             /\ last'.source = "db"
             /\ last'.vecs = <<embedding_cache[h].embedding>>
             /\ memory_cache'[last'.text] = embedding_cache[h].embedding
             /\ embedding_cache'[h].hit_count = embedding_cache[h].hit_count + 1]_vars

\* C24: a get_text_embedding call (use_cache = true) that finds the text in
\* the memory map returns that vector and raises nothing, whatever the state
\* of the store and of the provider, and leaves the persistent cache (rows,
\* vectors, models, hit_count) and the memory map exactly as they were; the
\* vector does not come from the provider.
Thm_C24 ==
    [][(/\ last'.op = "embed" /\ last'.arg = <<TRUE>>
        /\ memory_cache[last'.text] # NoVec)
       => /\ last'.raised = "none"
          /\ last'.vecs = <<memory_cache[last'.text]>>
          /\ last'.source = "memory"
          /\ embedding_cache' = embedding_cache
          /\ memory_cache' = memory_cache]_vars

\* a memory hit while the store's reads fail, the persistent row still at
\* hit_count 0
Wit_C24 ==
    /\ last.op = "embed" /\ last.arg = <<TRUE>> /\ last.fault = "read"
    /\ last.raised = "none"
    /\ last.source = "memory"
    /\ embedding_cache[_hash_text(last.text)] # NoRow
    /\ embedding_cache[_hash_text(last.text)].hit_count = 0

\* ------------------------------------------------ ranking and the floor

\* confidence_threshold values of exemplars, one of them as low as the
\* default floor
RankThresholds == {60, 80, 96}

\* upsert_exemplar with a threshold of RankThresholds
UpsertExemplarRanked ==
    \E intent \in Intents, phrase \in Phrases, threshold \in RankThresholds :
        /\ intent_exemplar[<<intent, phrase>>] # NoRow
           \/ RowCount(intent_exemplar) < MaxExemplars
        /\ intent_exemplar' = upsert_exemplar(intent_exemplar, intent, phrase,
                                              ProviderVec(phrase), threshold)
        /\ last' = [LastBase EXCEPT !.op = "upsert"]
        /\ UNCHANGED <<memory_cache, embedding_cache, initialized, vectorVars>>

NextRanking ==
    \/ UpsertExemplarRanked
    \/ DeleteExemplar
    \/ ClassifyIntent

SpecRanking == Init /\ [][NextRanking]_vars

\* the embedding a classify_intent call that returned has searched with: the
\* one passed in, else the one get_text_embedding returned (it is in the
\* memory map when the call returns)
QueryEmbedding(l, mem) == IF l.arg[2] # NoVec THEN l.arg[2] ELSE mem[l.text]

\* C25: a classify_intent call that returns decides on the candidate of
\* highest similarity among the exemplars above the floor, and on no other:
\* the result is the fallback when that candidate's similarity is below its
\* own confidence_threshold, whatever the other candidates' similarities and
\* thresholds are; an accepted result names that candidate; and no row other
\* than that candidate's changes (usage_count + 1 there, on acceptance only).
Thm_C25 ==
    [][(last'.op = "classify" /\ last'.raised = "none") =>
        LET q == QueryEmbedding(last', memory_cache')
            Sim(k) == Similarity(intent_exemplar[k].embedding, q)
            cands == {k \in Keys : /\ intent_exemplar[k] # NoRow
                                   /\ PassesFloor(Sim(k), last'.arg[1])}
            bm == last'.best_match
        IN /\ (cands = {}) <=> (bm = NoMatch)
           /\ bm = NoMatch => intent_exemplar' = intent_exemplar
           /\ bm # NoMatch =>
                LET b == <<bm.intent, bm.phrase>>
                IN /\ b \in cands
                   /\ bm.similarity = Sim(b)
                   /\ bm.confidence_threshold = intent_exemplar[b].confidence_threshold
                   /\ \A k \in cands : Sim(k) <= bm.similarity
                   /\ \A k \in Keys \ {b} : intent_exemplar'[k] = intent_exemplar[k]
                   /\ IF bm.similarity < bm.confidence_threshold
                      THEN /\ last'.result.fallback_used
                           /\ last'.result.intent = "GENERAL_CONVERSATION"
                           /\ intent_exemplar' = intent_exemplar
                      ELSE /\ ~last'.result.fallback_used
                           /\ last'.result.intent = bm.intent
                           /\ last'.result.exemplar_phrase = bm.phrase
                           /\ intent_exemplar'[b].usage_count
                                = intent_exemplar[b].usage_count + 1]_vars

\* a fallback on a top candidate below its own threshold while a lower-ranked
\* exemplar of another intent is above the floor and at or above its own
\* threshold, its usage_count still 0
Wit_C25 ==
    /\ last.op = "classify" /\ last.raised = "none"
    /\ last.best_match # NoMatch
    /\ last.result.fallback_used
    /\ last.best_match.similarity < last.best_match.confidence_threshold
    /\ \E k \in Keys :
         /\ intent_exemplar[k] # NoRow
         /\ k[1] # last.best_match.intent
         /\ LET s == Similarity(intent_exemplar[k].embedding,
                                QueryEmbedding(last, memory_cache))
            IN /\ s < last.best_match.similarity
               /\ PassesFloor(s, last.arg[1])
               /\ s >= intent_exemplar[k].confidence_threshold
         /\ intent_exemplar[k].usage_count = 0

\* C30: a classify_intent call that returns never accepts, nor even looks at,
\* an exemplar whose similarity to the query is at or below the floor
\* min_threshold, whatever that exemplar's confidence_threshold is; when no
\* exemplar is strictly above the floor the result is the fallback with
\* confidence 0.0 and an empty exemplar_phrase, and no row changes.
Thm_C30 ==
    [][(last'.op = "classify" /\ last'.raised = "none") =>
        LET q == QueryEmbedding(last', memory_cache')
            floor == last'.arg[1]
            Sim(k) == Similarity(intent_exemplar[k].embedding, q)
            rows == {k \in Keys : intent_exemplar[k] # NoRow}
        IN /\ last'.best_match # NoMatch => last'.best_match.similarity > floor
           /\ ~last'.result.fallback_used => last'.result.confidence > floor
           /\ \A k \in rows :
                Sim(k) <= floor =>
                    /\ intent_exemplar'[k] = intent_exemplar[k]
                    /\ ~(/\ ~last'.result.fallback_used
                         /\ last'.result.intent = k[1]
                         /\ last'.result.exemplar_phrase = k[2])
           /\ (\A k \in rows : Sim(k) <= floor) =>
                /\ last'.result = IntentResult("GENERAL_CONVERSATION", 0, "",
                                               last'.arg[2] # NoVec, TRUE)
                /\ intent_exemplar' = intent_exemplar]_vars

\* the no-candidate fallback while a stored exemplar has a similarity equal
\* to the floor and a confidence_threshold not above the floor
Wit_C30 ==
    /\ last.op = "classify" /\ last.raised = "none"
    /\ last.best_match = NoMatch
    /\ last.result.fallback_used
    /\ last.result.confidence = 0
    /\ last.result.exemplar_phrase = ""
    /\ \E k \in Keys :
         /\ intent_exemplar[k] # NoRow
         /\ Similarity(intent_exemplar[k].embedding,
                       QueryEmbedding(last, memory_cache)) = last.arg[1]
         /\ intent_exemplar[k].confidence_threshold <= last.arg[1]
         /\ intent_exemplar[k].usage_count = 0

\* ------------------------------------------------ the vector search cache key

\* the (threshold, limit) pairs of the calls: two that differ in the
\* threshold only, two that differ in the limit only
KeyCalls == {<<60, 2>>, <<80, 2>>, <<80, 1>>}

\* vector_similarity_search_with_cache called with either limit
VectorSimilaritySearchWithCacheLimits ==
    \E q \in ProductQueryVecs, threshold \in SearchThresholds, limit \in CacheLimits :
        \E o \in vector_similarity_search_with_cache(product, vector_search_cache, q,
                                                     threshold, limit, now) :
            /\ <<threshold, limit>> \in KeyCalls
            /\ HitsInBound(o.cache)
            /\ vector_search_cache' = o.cache
            /\ last' = [LastBase EXCEPT !.op = "vsearch",
                                        !.arg = <<q, threshold, limit>>,
                                        !.rows = o.results,
                                        !.result = [cache_hit |-> o.cache_hit]]
            /\ UNCHANGED <<intentVars, requests, product, response_cache, now>>

NextVectorKey ==
    \/ Tick
    \/ UpdateProductEmbedding
    \/ VectorSimilaritySearchWithCacheLimits

SpecVectorKey == InitVector /\ [][NextVectorKey]_vars

\* the ids of a result list, in order
IdsOf(rows) == [i \in 1..Len(rows) |-> rows[i].id]

\* C26: the cache key of a search is the same as that of another search
\* exactly when the two query embeddings agree on their first 10 dimensions
\* and the thresholds and the limits are equal; a cached search reads and
\* writes the entry of its own key only, is a hit exactly when that entry is
\* stored and not expired, and a hit returns the entry's id list, an entry
\* written for the same threshold and limit; a search that follows a miss
\* that returned results, with an embedding of the same first 10 dimensions
\* and the same threshold and limit, is a hit on that search's id list.
Thm_C26 ==
    [][last'.op = "vsearch" =>
        LET q == last'.arg[1]
            k == _generate_vector_cache_key(q, last'.arg[2], last'.arg[3])
            sample(v) == SubSeq(VecOf(v), 1, 10)
        IN /\ \A q2 \in ProductQueryVecs, t2 \in SearchThresholds, l2 \in CacheLimits :
                (_generate_vector_cache_key(q2, t2, l2) = k)
                    <=> (sample(q2) = sample(q) /\ t2 = last'.arg[2] /\ l2 = last'.arg[3])
           /\ \A k2 \in VectorKeys \ {k} :
                vector_search_cache'[k2] = vector_search_cache[k2]
           /\ last'.result.cache_hit <=>
                (vector_search_cache[k] # NoRow /\ vector_search_cache[k].expires_at > now)
           /\ last'.result.cache_hit =>
                /\ IdsOf(last'.rows) = vector_search_cache[k].product_ids
                /\ vector_search_cache[k].similarity_threshold = last'.arg[2]
                /\ vector_search_cache[k].result_limit = last'.arg[3]
           /\ (/\ last.op = "vsearch" /\ ~last.result.cache_hit /\ last.rows # <<>>
               /\ sample(last.arg[1]) = sample(q)
               /\ last.arg[2] = last'.arg[2] /\ last.arg[3] = last'.arg[3])
              => /\ last'.result.cache_hit
                 /\ IdsOf(last'.rows) = IdsOf(last.rows)]_vars

\* a hit of a search with embedding v6 at threshold 0.8 on an entry that only
\* a search with v5 can have written (no product is that close to v6), while
\* an entry of another threshold or limit holds a different id list
Wit_C26 ==
    /\ last.op = "vsearch" /\ last.result.cache_hit
    /\ last.arg[1] = "v6" /\ last.arg[2] = 80
    /\ \A id \in ProductIds :
         product[id].embedding # NoVec => Similarity(product[id].embedding, "v6") < 80
    /\ \E k2 \in VectorKeys \ {_generate_vector_cache_key("v6", 80, last.arg[3])} :
         /\ vector_search_cache[k2] # NoRow
         /\ vector_search_cache[k2].product_ids # IdsOf(last.rows)

\* C27: every product returned by vector_similarity_search_with_cache, on a
\* cache hit as well as on a miss, is in stock when the call is made and has a
\* reported similarity_score at or above the call's similarity_threshold.
CE_C27 ==
    last.op = "vsearch" =>
        \A i \in 1..Len(last.rows) :
            /\ product[last.rows[i].id].in_stock
            /\ last.rows[i].in_stock
            /\ last.rows[i].similarity_score >= last.arg[2]

\* C28: a cache hit on a vector_search_cache entry raises its hit_count by
\* exactly 1, sets last_accessed and changes nothing else of it (expires_at
\* and product_ids stay); an entry is served only while its expires_at, one
\* minute after its write, is ahead of the clock, and its expires_at changes
\* only when it is written again after it expired; every stored entry has
\* hit_count >= 1, no entry disappears, and no step lowers a hit_count.
Thm_C28 ==
    [][/\ (last'.op = "vsearch" /\ last'.result.cache_hit) =>
            LET k == _generate_vector_cache_key(last'.arg[1], last'.arg[2], last'.arg[3])
            IN /\ vector_search_cache[k] # NoRow
               /\ vector_search_cache[k].expires_at > now
               /\ vector_search_cache'[k] =
                    [vector_search_cache[k] EXCEPT !.hit_count = @ + 1,
                                                   !.last_accessed = now]
       /\ \A k \in VectorKeys :
            /\ vector_search_cache'[k] # NoRow => vector_search_cache'[k].hit_count >= 1
            /\ vector_search_cache[k] # NoRow =>
                /\ vector_search_cache'[k] # NoRow
                /\ vector_search_cache'[k].hit_count >= vector_search_cache[k].hit_count
                /\ vector_search_cache'[k].expires_at # vector_search_cache[k].expires_at
                      => /\ last'.op = "vsearch" /\ ~last'.result.cache_hit
                         /\ vector_search_cache[k].expires_at <= now
                         /\ vector_search_cache'[k].expires_at = now + VECTOR_CACHE_TTL
                         /\ vector_search_cache'[k].hit_count
                              = vector_search_cache[k].hit_count + 1]_vars

\* a search a minute or more after the entry was written that was not served
\* the entry, although the entry took a hit half a minute after its write
Wit_C28 ==
    /\ last.op = "vsearch" /\ ~last.result.cache_hit
    /\ now >= VECTOR_CACHE_TTL
    /\ LET k == _generate_vector_cache_key(last.arg[1], last.arg[2], last.arg[3])
       IN /\ vector_search_cache[k] # NoRow
          /\ vector_search_cache[k].expires_at = VECTOR_CACHE_TTL
          /\ vector_search_cache[k].last_accessed = 1
          /\ vector_search_cache[k].hit_count = 2

\* ------------------------------------------------ concurrent classify_intent calls

\* the exemplars are stored before the concurrent calls are accepted
SetupExemplar ==
    /\ ~requests.started
    /\ UpsertExemplar

\* upsert_exemplar on a stored row while the calls are under way: the row is
\* updated in place
UpsertMeanwhile ==
    /\ requests.started
    /\ \E k \in Keys, threshold \in Thresholds :
        /\ intent_exemplar[k] # NoRow
        /\ intent_exemplar' = upsert_exemplar(intent_exemplar, k[1], k[2],
                                              ProviderVec(k[2]), threshold)
    /\ UNCHANGED <<memory_cache, embedding_cache, initialized, vectorVars, last>>

\* Two classify_intent calls, each with the embedding of its query passed in,
\* are accepted together. initial: the table as it is then; deleted: the rows
\* deleted since.
StartClassify ==
    /\ ~requests.started
    /\ \E qa \in QueryVecs, qb \in QueryVecs :
        requests' = [started |-> TRUE,
                     q |-> <<qa, qb>>,
                     pc |-> <<"search", "search">>,
                     best_match |-> <<NoMatch, NoMatch>>,
                     result |-> <<NoResult, NoResult>>,
                     initial |-> intent_exemplar,
                     deleted |-> {}]
    /\ UNCHANGED <<intentVars, product, vector_search_cache, response_cache, now, last>>

apply_increment_from_read(ex, best_match) ==
    LET k == <<best_match.intent, best_match.phrase>>
    IN [ex EXCEPT ![k] = IF @ = NoRow THEN @
                         ELSE [@ EXCEPT !.usage_count = best_match.usage_count + 1]]

\* await self.exemplar_service.increment_usage_by_phrase(best_match.intent,
\* best_match.phrase): one UPDATE ... SET usage_count = usage_count + 1
apply_increment(ex, best_match) ==
    increment_usage_by_phrase(ex, best_match.intent, best_match.phrase)

\* the search is awaited and the decision taken on its first row
\* (intent.py:73-103); a fallback returns at once
ReqSearch(r) ==
    /\ requests.started
    /\ requests.pc[r] = "search"
    /\ \E rows \in search_similar_intents(intent_exemplar, requests.q[r],
                                          DefaultMinThreshold, DefaultMaxResults) :
        requests' =
            IF rows = <<>>
            THEN [requests EXCEPT
                    !.pc[r] = "done",
                    !.result[r] = IntentResult("GENERAL_CONVERSATION", 0, "", TRUE, TRUE)]
            ELSE IF rows[1].similarity >= rows[1].confidence_threshold
            THEN [requests EXCEPT !.pc[r] = "increment", !.best_match[r] = rows[1]]
            ELSE [requests EXCEPT
                    !.pc[r] = "done", !.best_match[r] = rows[1],
                    !.result[r] = IntentResult("GENERAL_CONVERSATION", rows[1].similarity,
                                               rows[1].phrase, TRUE, TRUE)]
    /\ UNCHANGED <<intentVars, product, vector_search_cache, response_cache, now, last>>

\* the UPDATE is executed and the accepted result returned (intent.py:105-114)
ReqIncrement(r) ==
    /\ requests.started
    /\ requests.pc[r] = "increment"
    /\ intent_exemplar' = apply_increment(intent_exemplar, requests.best_match[r])
    /\ requests' =
         [requests EXCEPT
            !.pc[r] = "done",
            !.result[r] = IntentResult(requests.best_match[r].intent,
                                       requests.best_match[r].similarity,
                                       requests.best_match[r].phrase, TRUE, FALSE)]
    /\ UNCHANGED <<memory_cache, embedding_cache, initialized, product,
                   vector_search_cache, response_cache, now, last>>

\* delete_exemplar while the calls are under way
DeleteMeanwhile ==
    /\ requests.started
    /\ \E k \in Keys :
        /\ intent_exemplar[k] # NoRow
        /\ intent_exemplar' = delete_exemplar(intent_exemplar, k)
        /\ requests' = [requests EXCEPT !.deleted = @ \cup {k}]
    /\ UNCHANGED <<memory_cache, embedding_cache, initialized, product,
                   vector_search_cache, response_cache, now, last>>

NextClassify ==
    \/ SetupExemplar
    \/ UpsertMeanwhile
    \/ StartClassify
    \/ \E r \in Requests : ReqSearch(r)
    \/ \E r \in Requests : ReqIncrement(r)
    \/ DeleteMeanwhile

SpecClassify == Init /\ [][NextClassify]_vars

\* the calls that have returned an accepted result naming exemplar k
AcceptedFor(k) ==
    {r \in Requests : /\ requests.pc[r] = "done"
                      /\ ~requests.result[r].fallback_used
                      /\ requests.result[r].intent = k[1]
                      /\ requests.result[r].exemplar_phrase = k[2]}

\* C29: at every point of every interleaving of two classify_intent calls,
\* each exemplar stored when the calls were accepted and not deleted since has
\* a usage_count equal to its value then plus the number of calls that have
\* returned an accepted result (fallback_used = false) naming its (intent,
\* phrase); so it is when both calls have returned.
Thm_C29 ==
    requests.started =>
        \A k \in Keys :
            (requests.initial[k] # NoRow /\ k \notin requests.deleted) =>
                /\ intent_exemplar[k] # NoRow
                /\ intent_exemplar[k].usage_count
                     = requests.initial[k].usage_count + Cardinality(AcceptedFor(k))

\* both calls searched before either incremented (each read usage_count 0),
\* both accepted the same exemplar, and its usage_count is 2
Wit_C29 ==
    /\ requests.started
    /\ requests.pc = <<"done", "done">>
    /\ \E k \in Keys :
         /\ AcceptedFor(k) = Requests
         /\ k \notin requests.deleted
         /\ requests.best_match[1].usage_count = 0
         /\ requests.best_match[2].usage_count = 0
         /\ intent_exemplar[k].usage_count = 2

====
